---- MODULE Spec2Model ----
(***************************************************************************)
(* Model of translatorelevenlabs.py: the Streamlit entry point main, the   *)
(* duration guard check_video_duration, and the pipeline process_video     *)
(* with its stages extract_audio, recognize_speech, the translation        *)
(* request and generate_speech_eleven_labs, over a set of files on         *)
(* temporary storage.                                                      *)
(*                                                                         *)
(* Times are in milliseconds (pydub's unit); video.duration, a number of   *)
(* seconds in the source, is held in milliseconds too.  os.remove on an    *)
(* existing file removes it.  A text is a sequence of characters.          *)
(***************************************************************************)
EXTENDS Integers, Sequences, FiniteSets, TLC

\* ---------------------------------------------------------------- bounds
MaxSteps == 13
DurationStep == 10000
BoundaryCount == 3

\* Video durations tried, in ms: a grid plus the values around each multiple
\* of the chunk length (30 s, 60 s, 90 s).
Durations ==
    {k * DurationStep : k \in 0..MaxSteps}
        \cup {b * 30000 + j : b \in 1..BoundaryCount, j \in {-1, 0, 1}}
        \cup {1, 45000}

\* Texts the speech service can return for a chunk, and the translation
\* service for the whole transcript.
Fragments == {<<"a">>, <<"b", "c">>}
Translations == {<<>>, <<"e">>}

\* ----------------------------------------------------------------- files
InputFile == <<"input", 0>>
AudioFile == <<"audio", 0>>
SynthFile == <<"synth", 0>>
OutputFile == <<"output", 0>>
ChunkFile(i) == <<"chunk", i>>
NoPath == <<"none", 0>>

\* A returned text, or Python's None.
NoneText == [isNone |-> TRUE, text |-> <<>>]
SomeText(t) == [isNone |-> FALSE, text |-> t]

\* What happened to one chunk: "recognized" with the text returned,
\* "unknown" (sr.UnknownValueError), "request_error" (sr.RequestError), or
\* "hard" (any other exception).
Outcome(out, t) == [out |-> out, text |-> t]

\* preserve_terms, each term a sequence of characters
preserve_terms_repeated ==
    << <<"n", "a", "m", "a", "z">>, <<"a", "l", "l", "a", "h">>,
       <<"r", "a", "m", "a", "d", "a", "n">>, <<"e", "i", "d">>,
       <<"h", "a", "j", "j">>, <<"z", "a", "k", "a", "t">>,
       <<"m", "a", "s", "j", "i", "d">>, <<"A", "l", "l", "a", "h">> >>
preserve_terms ==
    << <<"n", "a", "m", "a", "z">>, <<"a", "l", "l", "a", "h">>,
       <<"r", "a", "m", "a", "d", "a", "n">>, <<"e", "i", "d">>,
       <<"h", "a", "j", "j">>, <<"z", "a", "k", "a", "t">>,
       <<"m", "a", "s", "j", "i", "d">> >>

\* Nothing was sent to the translation service yet.
NoRequest == [preserve_list |-> <<>>, text |-> <<>>]

Stages == <<"ExtractingAudio", "Transcribing", "Translating", "Synthesizing", "Remuxing">>

VARIABLES
    mainpc,             \* position of main
    duration,           \* duration of the uploaded video, ms
    probeOk,            \* whether the guard's VideoFileClip(...) opened
    verdict,            \* "none", "accept", "reject"
    handed,             \* output displayed and offered for download
    pvpc,               \* position of process_video
    stage,              \* current stage of the run
    trace,              \* stages started, in order
    progress,           \* value shown by progress_bar
    progressLog,        \* every value reported, in order
    errors,             \* st.error calls, in order, by origin
    files,              \* files existing on storage
    created,            \* every file ever created
    removed,            \* every successful os.remove, in order
    audio_path, english_audio_path, output_path,
    result,             \* return value of process_video
    chunks,             \* the slices of recognize_speech
    idx,                \* number of chunks processed
    outcomes,           \* per processed chunk, what happened
    transcribed_text,   \* the list of recognized fragments
    urdu_text, english_text,
    translateOutcome,   \* "none", "ok", "error"
    request,            \* what was sent to the translation service
    calls               \* calls made to each external service

vars == <<mainpc, duration, probeOk, verdict, handed, pvpc, stage, trace,
          progress, progressLog, errors, files, created, removed,
          audio_path, english_audio_path, output_path, result, chunks, idx,
          outcomes, transcribed_text, urdu_text, english_text,
          translateOutcome, request, calls>>

mainVars == <<mainpc, duration, probeOk, verdict, handed>>
rsVars == <<chunks, idx, outcomes, transcribed_text>>

\* ------------------------------------------------------- pure functions
Min(a, b) == IF a < b THEN a ELSE b

\* Python's range(start, stop, step) for step > 0, as a sequence.
RECURSIVE Range(_, _, _)
Range(start, stop, step) ==
    IF start >= stop THEN <<>>
    ELSE <<start>> \o Range(start + step, stop, step)

chunk_length == 30 * 1000

\* pydub's audio[a:b] on an audio of length len: both ends are clamped.
Slice_unclamped(len, a, b) == [start |-> a, end |-> b]
Slice(len, a, b) == [start |-> Min(a, len), end |-> Min(b, len)]

\* [audio[i:i + chunk_length] for i in range(0, len(audio), chunk_length)]
MakeChunks(len) ==
    LET starts == Range(0, len, chunk_length)
    IN  [k \in 1..Len(starts) |-> Slice(len, starts[k], starts[k] + chunk_length)]

\* sep.join(parts)
RECURSIVE Join(_, _)
Join_trailing(sep, parts) ==
    IF parts = <<>> THEN <<>>
    ELSE Head(parts) \o sep \o Join(sep, Tail(parts))
Join(sep, parts) ==
    IF parts = <<>> THEN <<>>
    ELSE IF Len(parts) = 1 THEN Head(parts)
    ELSE Head(parts) \o sep \o Join(sep, Tail(parts))

\* return duration <= 90, and False when opening the clip raised
check_video_duration_strict(opened, d) == opened /\ d < 90 * 1000
check_video_duration(opened, d) == opened /\ d <= 90 * 1000

\* Python truthiness of a path and of a text
FalsyPath_never(p) == FALSE
FalsyPath(p) == p = NoPath
FalsyText_noneOnly(t) == t.isNone
FalsyText(t) == t.isNone \/ t.text = <<>>

\* except Exception in recognize_speech: report and return None, whatever
\* was recognized so far.
HardResult_partial(parts) == SomeText(Join(<<" ">>, parts))
HardResult(parts) == NoneText

\* The outcomes of a chunk after which the loop goes on: recognize_google
\* returned, or raised one of the two exceptions caught inside the loop.
Tolerated_noRequestError(out) == out \in {"recognized", "unknown"}
Tolerated(out) == out \in {"recognized", "unknown", "request_error"}

\* os.remove(p) guarded by os.path.exists(p)
RemoveIfExists(fs, p) == fs \ {p}
RemovedLog(log, fs, p) == IF p \in fs THEN Append(log, p) ELSE log

\* ------------------------------------------------------------------ Init
Init ==
    /\ mainpc = "start"
    /\ duration = 0
    /\ probeOk = FALSE
    /\ verdict = "none"
    /\ handed = FALSE
    /\ pvpc = "idle"
    /\ stage = "Idle"
    /\ trace = <<>>
    /\ progress = 0
    /\ progressLog = <<>>
    /\ errors = <<>>
    /\ files = {}
    /\ created = {}
    /\ removed = <<>>
    /\ audio_path = NoPath
    /\ english_audio_path = NoPath
    /\ output_path = NoPath
    /\ result = NoPath
    /\ chunks = <<>>
    /\ idx = 0
    /\ outcomes = <<>>
    /\ transcribed_text = <<>>
    /\ urdu_text = NoneText
    /\ english_text = NoneText
    /\ translateOutcome = "none"
    /\ request = NoRequest
    /\ calls = [stt |-> 0, translate |-> 0, tts |-> 0]

pvVars == <<pvpc, stage, trace, progress, progressLog, audio_path,
            english_audio_path, output_path, result, urdu_text, english_text,
            translateOutcome, request, calls>>

\* ------------------------------------------------------------------ main
\* uploaded_file is None: nothing happens.
NoUpload ==
    /\ mainpc = "start"
    /\ mainpc' = "end"
    /\ UNCHANGED <<duration, probeOk, verdict, handed, errors, files, created, removed>>
    /\ UNCHANGED pvVars /\ UNCHANGED rsVars

\* The upload is written to a NamedTemporaryFile(delete=False).
Upload ==
    /\ mainpc = "start"
    /\ \E d \in Durations : duration' = d
    /\ files' = files \cup {InputFile}
    /\ created' = created \cup {InputFile}
    /\ mainpc' = "check"
    /\ UNCHANGED <<probeOk, verdict, handed, errors, removed>>
    /\ UNCHANGED pvVars /\ UNCHANGED rsVars

\* if not check_video_duration(tmp_file_path)
GuardRejects_never(v) == FALSE
GuardRejects(v) == ~v

\* The guard and the branch on its verdict.
CheckDuration ==
    /\ mainpc = "check"
    /\ \E opened \in BOOLEAN :
        LET v == check_video_duration(opened, duration) IN
        /\ probeOk' = opened
        /\ verdict' = IF v THEN "accept" ELSE "reject"
        /\ errors' = IF opened THEN errors ELSE Append(errors, "check_video_duration")
        /\ IF GuardRejects(v)
           THEN /\ files' = RemoveIfExists(files, InputFile)
                /\ removed' = RemovedLog(removed, files, InputFile)
                /\ mainpc' = "end"
           ELSE /\ mainpc' = "ready"
                /\ UNCHANGED <<files, removed>>
    /\ UNCHANGED <<duration, handed, created>>
    /\ UNCHANGED pvVars /\ UNCHANGED rsVars

\* st.button("Process Video") is False in this script run.
ButtonNotPressed ==
    /\ mainpc = "ready"
    /\ mainpc' = "end"
    /\ UNCHANGED <<duration, probeOk, verdict, handed, errors, files, created, removed>>
    /\ UNCHANGED pvVars /\ UNCHANGED rsVars

\* The button is pressed: process_video(tmp_file_path) is called.
ClickProcess ==
    /\ mainpc = "ready"
    /\ mainpc' = "processing"
    /\ pvpc' = "start"
    /\ UNCHANGED <<duration, probeOk, verdict, handed, errors, files, created, removed,
                   stage, trace, progress, progressLog, audio_path,
                   english_audio_path, output_path, result, urdu_text,
                   english_text, translateOutcome, request, calls>>
    /\ UNCHANGED rsVars

\* After process_video returned: show and offer the output, delete it, and
\* in the finally clause delete the input.  Showing the output may raise.
MainAfter ==
    /\ mainpc = "processing"
    /\ pvpc = "returned"
    /\ \E shown \in BOOLEAN :
        LET hasOutput == result # NoPath /\ result \in files
            afterOutput == IF hasOutput /\ shown THEN RemoveIfExists(files, result) ELSE files
            logOutput == IF hasOutput /\ shown THEN RemovedLog(removed, files, result) ELSE removed
        IN  /\ handed' = (hasOutput /\ shown)
            /\ files' = RemoveIfExists(afterOutput, InputFile)
            /\ removed' = RemovedLog(logOutput, afterOutput, InputFile)
    /\ mainpc' = "end"
    /\ UNCHANGED <<duration, probeOk, verdict, errors, created>>
    /\ UNCHANGED pvVars /\ UNCHANGED rsVars

\* --------------------------------------------------------- process_video
\* Several files removed in order, each guarded by os.path.exists.
RECURSIVE RemoveAll(_, _)
RemoveAll(fs, paths) ==
    IF paths = <<>> THEN fs
    ELSE RemoveAll(RemoveIfExists(fs, Head(paths)), Tail(paths))

RECURSIVE RemovedLogAll(_, _, _)
RemovedLogAll(log, fs, paths) ==
    IF paths = <<>> THEN log
    ELSE RemovedLogAll(RemovedLog(log, fs, Head(paths)),
                       RemoveIfExists(fs, Head(paths)), Tail(paths))

\* for file_path in [audio_path, english_audio_path]
CleanupList_audioOnly == <<audio_path>>
CleanupList_withInput == <<audio_path, english_audio_path, InputFile>>
CleanupList == <<audio_path, english_audio_path>>

\* st.progress(0), then with VideoFileClip(video_path) as video
PVStart ==
    /\ pvpc = "start"
    /\ progress' = 0
    /\ progressLog' = Append(progressLog, 0)
    /\ \E opened \in BOOLEAN :
        IF opened
        THEN /\ pvpc' = "extract"
             /\ UNCHANGED <<errors, result, stage>>
        ELSE /\ errors' = Append(errors, "process_video")
             /\ result' = NoPath
             /\ stage' = "Failed"
             /\ pvpc' = "returned"
    /\ UNCHANGED <<trace, files, created, removed, audio_path, english_audio_path,
                   output_path, urdu_text, english_text, translateOutcome, request, calls>>
    /\ UNCHANGED mainVars /\ UNCHANGED rsVars

\* audio_path = extract_audio(video_path); if not audio_path: return None
ExtractAudio ==
    /\ pvpc = "extract"
    /\ trace' = Append(trace, "ExtractingAudio")
    /\ \E out \in {"ok", "error", "error_partial"} :
        /\ files' = IF out = "error" THEN files ELSE files \cup {AudioFile}
        /\ created' = IF out = "error" THEN created ELSE created \cup {AudioFile}
        /\ audio_path' = IF out = "ok" THEN AudioFile ELSE NoPath
        /\ errors' = IF out = "ok" THEN errors ELSE Append(errors, "extract_audio")
        /\ IF FalsyPath(audio_path')
           THEN /\ result' = NoPath
                /\ stage' = "Failed"
                /\ pvpc' = "returned"
                /\ UNCHANGED <<progress, progressLog>>
           ELSE /\ progress' = 25
                /\ progressLog' = Append(progressLog, 25)
                /\ stage' = "ExtractingAudio"
                /\ pvpc' = "transcribe"
                /\ UNCHANGED result
    /\ UNCHANGED <<removed, english_audio_path, output_path, urdu_text,
                   english_text, translateOutcome, request, calls>>
    /\ UNCHANGED mainVars /\ UNCHANGED rsVars

\* recognize_speech, up to the loop: AudioSegment.from_wav and the chunks.
BeginTranscribe ==
    /\ pvpc = "transcribe"
    /\ stage' = "Transcribing"
    /\ trace' = Append(trace, "Transcribing")
    /\ \E loaded \in BOOLEAN :
        IF loaded
        THEN /\ chunks' = MakeChunks(duration)
             /\ transcribed_text' = <<>>
             /\ idx' = 0
             /\ outcomes' = <<>>
             /\ pvpc' = "export"
             /\ UNCHANGED <<errors, urdu_text>>
        ELSE /\ errors' = Append(errors, "recognize_speech")
             /\ urdu_text' = HardResult(transcribed_text)
             /\ pvpc' = "check_transcript"
             /\ UNCHANGED rsVars
    /\ UNCHANGED <<progress, progressLog, files, created, removed, audio_path,
                   english_audio_path, output_path, result, english_text,
                   translateOutcome, request, calls>>
    /\ UNCHANGED mainVars

\* chunk_path = tempfile.mktemp(...); chunk.export(chunk_path, format="wav")
ExportChunk ==
    /\ pvpc = "export"
    /\ idx < Len(chunks)
    /\ \E out \in {"ok", "error", "error_partial"} :
        /\ files' = IF out = "error" THEN files ELSE files \cup {ChunkFile(idx + 1)}
        /\ created' = IF out = "error" THEN created ELSE created \cup {ChunkFile(idx + 1)}
        /\ IF out = "ok"
           THEN /\ pvpc' = "recognize"
                /\ UNCHANGED <<errors, urdu_text, outcomes>>
           ELSE /\ errors' = Append(errors, "recognize_speech")
                /\ urdu_text' = HardResult(transcribed_text)
                /\ outcomes' = Append(outcomes, Outcome("hard", <<>>))
                /\ pvpc' = "check_transcript"
    /\ UNCHANGED <<stage, trace, progress, progressLog, removed, audio_path,
                   english_audio_path, output_path, result, english_text,
                   translateOutcome, request, calls, chunks, idx, transcribed_text>>
    /\ UNCHANGED mainVars

\* The fragments a chunk's outcome adds to transcribed_text.
Contribution_always(out, t) == <<t>>
Contribution(out, t) == IF out = "recognized" THEN <<t>> ELSE <<>>

\* with sr.AudioFile(chunk_path) as source: record, recognize_google and
\* the two tolerated exceptions.
RecognizeChunk ==
    /\ pvpc = "recognize"
    /\ \E out \in {"recognized", "unknown", "request_error", "read_error"},
          t \in Fragments :
        IF ~Tolerated(out)
        THEN /\ errors' = Append(errors, "recognize_speech")
             /\ urdu_text' = HardResult(transcribed_text)
             /\ outcomes' = Append(outcomes,
                    Outcome(IF out = "read_error" THEN "hard" ELSE out, <<>>))
             /\ pvpc' = "check_transcript"
             /\ UNCHANGED <<transcribed_text, calls>>
        ELSE /\ calls' = [calls EXCEPT !.stt = @ + 1]
             /\ transcribed_text' = transcribed_text \o Contribution(out, t)
             /\ outcomes' = Append(outcomes,
                    Outcome(out, IF out = "recognized" THEN t ELSE <<>>))
             /\ errors' = IF out = "request_error"
                          THEN Append(errors, "speech_service") ELSE errors
             /\ pvpc' = "remove"
             /\ UNCHANGED urdu_text
    /\ UNCHANGED <<stage, trace, progress, progressLog, files, created, removed,
                   audio_path, english_audio_path, output_path, result,
                   english_text, translateOutcome, request, chunks, idx>>
    /\ UNCHANGED mainVars

\* os.remove(chunk_path), and on to the next chunk
RemoveChunk ==
    /\ pvpc = "remove"
    /\ files' = RemoveIfExists(files, ChunkFile(idx + 1))
    /\ removed' = RemovedLog(removed, files, ChunkFile(idx + 1))
    /\ idx' = idx + 1
    /\ pvpc' = "export"
    /\ UNCHANGED <<stage, trace, progress, progressLog, errors, created, audio_path,
                   english_audio_path, output_path, result, urdu_text,
                   english_text, translateOutcome, request, calls, chunks, outcomes,
                   transcribed_text>>
    /\ UNCHANGED mainVars

\* return " ".join(transcribed_text)
EndTranscribe ==
    /\ pvpc = "export"
    /\ idx = Len(chunks)
    /\ urdu_text' = SomeText(Join(<<" ">>, transcribed_text))
    /\ pvpc' = "check_transcript"
    /\ UNCHANGED <<stage, trace, progress, progressLog, errors, files, created,
                   removed, audio_path, english_audio_path, output_path, result,
                   english_text, translateOutcome, request, calls>>
    /\ UNCHANGED mainVars /\ UNCHANGED rsVars

\* if not urdu_text: return None
CheckTranscript_retry ==
    /\ pvpc = "check_transcript"
    /\ IF FalsyText(urdu_text)
       THEN /\ pvpc' = "transcribe"
            /\ UNCHANGED <<result, stage, progress, progressLog>>
       ELSE /\ progress' = 50
            /\ progressLog' = Append(progressLog, 50)
            /\ pvpc' = "translate"
            /\ UNCHANGED <<result, stage>>
    /\ UNCHANGED <<trace, errors, files, created, removed, audio_path,
                   english_audio_path, output_path, urdu_text, english_text,
                   translateOutcome, request, calls>>
    /\ UNCHANGED mainVars /\ UNCHANGED rsVars
CheckTranscript ==
    /\ pvpc = "check_transcript"
    /\ IF FalsyText(urdu_text)
       THEN /\ result' = NoPath
            /\ stage' = "Failed"
            /\ pvpc' = "returned"
            /\ UNCHANGED <<progress, progressLog>>
       ELSE /\ progress' = 50
            /\ progressLog' = Append(progressLog, 50)
            /\ pvpc' = "translate"
            /\ UNCHANGED <<result, stage>>
    /\ UNCHANGED <<trace, errors, files, created, removed, audio_path,
                   english_audio_path, output_path, urdu_text, english_text,
                   translateOutcome, request, calls>>
    /\ UNCHANGED mainVars /\ UNCHANGED rsVars

\* model.generate_content(...); english_text = response.text
Translate ==
    /\ pvpc = "translate"
    /\ trace' = Append(trace, "Translating")
    /\ calls' = [calls EXCEPT !.translate = @ + 1]
    /\ \E out \in {"ok", "error"}, t \in Translations :
        /\ translateOutcome' = out
        /\ request' = [preserve_list |-> Join(<<",", " ">>, preserve_terms),
                       text |-> urdu_text.text]
        /\ IF out = "ok"
           THEN /\ english_text' = SomeText(t)
                /\ progress' = 75
                /\ progressLog' = Append(progressLog, 75)
                /\ stage' = "Translating"
                /\ pvpc' = "synthesize"
                /\ UNCHANGED <<errors, result>>
           ELSE /\ errors' = Append(errors, "process_video")
                /\ result' = NoPath
                /\ stage' = "Failed"
                /\ pvpc' = "returned"
                /\ UNCHANGED <<english_text, progress, progressLog>>
    /\ UNCHANGED <<files, created, removed, audio_path, english_audio_path,
                   output_path, urdu_text>>
    /\ UNCHANGED mainVars /\ UNCHANGED rsVars

\* english_audio_path = generate_speech_eleven_labs(english_text)
Synthesize_progressFirst ==
    /\ pvpc = "synthesize"
    /\ trace' = Append(trace, "Synthesizing")
    /\ calls' = [calls EXCEPT !.tts = @ + 1]
    /\ \E out \in {"ok", "error", "error_partial"} :
        /\ files' = IF out = "error" THEN files ELSE files \cup {SynthFile}
        /\ created' = IF out = "error" THEN created ELSE created \cup {SynthFile}
        /\ english_audio_path' = IF out = "ok" THEN SynthFile ELSE NoPath
        /\ errors' = IF out = "ok" THEN errors
                     ELSE Append(errors, "generate_speech_eleven_labs")
        /\ IF FalsyPath(english_audio_path')
           THEN /\ result' = NoPath
                /\ stage' = "Failed"
                /\ pvpc' = "returned"
                /\ progress' = 85
                /\ progressLog' = Append(progressLog, 85)
           ELSE /\ progress' = 85
                /\ progressLog' = Append(progressLog, 85)
                /\ stage' = "Synthesizing"
                /\ pvpc' = "remux"
                /\ UNCHANGED result
    /\ UNCHANGED <<removed, audio_path, output_path, urdu_text, english_text,
                   translateOutcome, request>>
    /\ UNCHANGED mainVars /\ UNCHANGED rsVars
Synthesize ==
    /\ pvpc = "synthesize"
    /\ trace' = Append(trace, "Synthesizing")
    /\ calls' = [calls EXCEPT !.tts = @ + 1]
    /\ \E out \in {"ok", "error", "error_partial"} :
        /\ files' = IF out = "error" THEN files ELSE files \cup {SynthFile}
        /\ created' = IF out = "error" THEN created ELSE created \cup {SynthFile}
        /\ english_audio_path' = IF out = "ok" THEN SynthFile ELSE NoPath
        /\ errors' = IF out = "ok" THEN errors
                     ELSE Append(errors, "generate_speech_eleven_labs")
        /\ IF FalsyPath(english_audio_path')
           THEN /\ result' = NoPath
                /\ stage' = "Failed"
                /\ pvpc' = "returned"
                /\ UNCHANGED <<progress, progressLog>>
           ELSE /\ progress' = 85
                /\ progressLog' = Append(progressLog, 85)
                /\ stage' = "Synthesizing"
                /\ pvpc' = "remux"
                /\ UNCHANGED result
    /\ UNCHANGED <<removed, audio_path, output_path, urdu_text, english_text,
                   translateOutcome, request>>
    /\ UNCHANGED mainVars /\ UNCHANGED rsVars

\* output_path = ..._translated.mp4; set_audio, write_videofile, close
Remux ==
    /\ pvpc = "remux"
    /\ trace' = Append(trace, "Remuxing")
    /\ output_path' = OutputFile
    /\ \E out \in {"ok", "error", "error_partial"} :
        /\ files' = IF out = "error" THEN files ELSE files \cup {OutputFile}
        /\ created' = IF out = "error" THEN created ELSE created \cup {OutputFile}
        /\ IF out = "ok"
           THEN /\ stage' = "Remuxing"
                /\ pvpc' = "cleanup"
                /\ UNCHANGED <<errors, result>>
           ELSE /\ errors' = Append(errors, "process_video")
                /\ result' = NoPath
                /\ stage' = "Failed"
                /\ pvpc' = "returned"
    /\ UNCHANGED <<progress, progressLog, removed, audio_path, english_audio_path,
                   urdu_text, english_text, translateOutcome, request, calls>>
    /\ UNCHANGED mainVars /\ UNCHANGED rsVars

\* The clean-up loop, progress 100 and return output_path
Cleanup ==
    /\ pvpc = "cleanup"
    /\ files' = RemoveAll(files, CleanupList)
    /\ removed' = RemovedLogAll(removed, files, CleanupList)
    /\ progress' = 100
    /\ progressLog' = Append(progressLog, 100)
    /\ result' = output_path
    /\ stage' = "Done"
    /\ pvpc' = "returned"
    /\ UNCHANGED <<trace, errors, created, audio_path, english_audio_path,
                   output_path, urdu_text, english_text, translateOutcome, request, calls>>
    /\ UNCHANGED mainVars /\ UNCHANGED rsVars

Next ==
    \/ NoUpload
    \/ Upload
    \/ CheckDuration
    \/ ButtonNotPressed
    \/ ClickProcess
    \/ MainAfter
    \/ PVStart
    \/ ExtractAudio
    \/ BeginTranscribe
    \/ ExportChunk
    \/ RecognizeChunk
    \/ RemoveChunk
    \/ EndTranscribe
    \/ CheckTranscript
    \/ Translate
    \/ Synthesize
    \/ Remux
    \/ Cleanup

Spec == Init /\ [][Next]_vars

TypeOK ==
    /\ mainpc \in {"start", "check", "ready", "processing", "end"}
    /\ pvpc \in {"idle", "start", "extract", "transcribe", "export", "recognize",
                 "remove", "check_transcript", "translate", "synthesize",
                 "remux", "cleanup", "returned"}
    /\ verdict \in {"none", "accept", "reject"}
    /\ progress \in {0, 25, 50, 75, 85, 100}
    /\ idx \in 0..Len(chunks)

\* ---------------------------------------------------------------- claims
Count(log, p) == Cardinality({i \in DOMAIN log : log[i] = p})
Started(s) == \E i \in DOMAIN trace : trace[i] = s
Returned == pvpc = "returned"
IsPrefix(s, t) == Len(s) <= Len(t) /\ \A i \in 1..Len(s) : s[i] = t[i]

\* The pieces of a text between single " " characters, empty pieces kept.
RECURSIVE SplitOnSpace(_, _)
SplitOnSpace(text, piece) ==
    IF text = <<>> THEN <<piece>>
    ELSE IF Head(text) = " " THEN <<piece>> \o SplitOnSpace(Tail(text), <<>>)
    ELSE SplitOnSpace(Tail(text), Append(piece, Head(text)))

\* The texts of the recognized chunks, in chunk order.
RECURSIVE RecognizedTexts(_)
RecognizedTexts(outs) ==
    IF outs = <<>> THEN <<>>
    ELSE (IF Head(outs).out = "recognized" THEN <<Head(outs).text>> ELSE <<>>)
            \o RecognizedTexts(Tail(outs))

\* C1: when process_video has returned None, neither the extracted audio
\* file nor the synthesized audio file exists on storage.
C1_FailedRunLeavesNoTemporary ==
    (Returned /\ result = NoPath) =>
        (AudioFile \notin files /\ SynthFile \notin files)

\* C2: in a run that reached Done the extracted and the synthesized audio
\* were each removed exactly once and are gone when process_video returns;
\* the output file was not removed by process_video and exists on return;
\* it is removed only by main, after it was displayed and offered.
C2_DoneDeletesTemporariesOnce ==
    /\ (Returned /\ stage = "Done") =>
        /\ \A f \in {AudioFile, SynthFile} :
            f \in created /\ f \notin files /\ Count(removed, f) = 1
        /\ result = OutputFile
        /\ (mainpc = "processing" =>
                OutputFile \in files /\ Count(removed, OutputFile) = 0)
    /\ (Count(removed, OutputFile) > 0 =>
            handed /\ mainpc = "end" /\ Count(removed, OutputFile) = 1)

C2_Witness ==
    /\ stage = "Done"
    /\ mainpc = "end"
    /\ handed
    /\ files = {}
    /\ Count(removed, OutputFile) = 1

\* C3: the guard rejects every video longer than 90 s, accepts every video
\* of at most 90 s (90 s included) that opens, and rejects when opening or
\* probing raised.
C3_GuardVerdict ==
    verdict # "none" =>
        /\ (probeOk /\ duration > 90000 => verdict = "reject")
        /\ (probeOk /\ duration <= 90000 => verdict = "accept")
        /\ (~probeOk => verdict = "reject")

C3_Witness == verdict = "accept" /\ duration = 90000 /\ probeOk

\* C4: for a rejected video process_video is never invoked, no stage
\* starts, no service is called and no file besides the input is created;
\* process_video only runs on an input the guard accepted.
C4_RejectedNeverProcessed ==
    /\ verdict = "reject" =>
        /\ pvpc = "idle"
        /\ trace = <<>>
        /\ created \subseteq {InputFile}
        /\ calls = [stt |-> 0, translate |-> 0, tts |-> 0]
    /\ (pvpc # "idle" => verdict = "accept")

C4_Witness ==
    /\ verdict = "reject"
    /\ probeOk
    /\ duration > 90000
    /\ mainpc = "end"
    /\ created = {InputFile}

\* C5: transcription starts only with an audio path, translation only with
\* a non-empty source text, synthesis only with a non-empty translated
\* text, remux only with a synthesized audio asset.
C5_StageNeedsPredecessorResult ==
    /\ (Started("Transcribing") => audio_path # NoPath)
    /\ (Started("Translating") => ~FalsyText(urdu_text))
    /\ (Started("Synthesizing") => ~FalsyText(english_text))
    /\ (Started("Remuxing") => english_audio_path # NoPath)

InTranscription == pvpc \in {"export", "recognize", "remove", "check_transcript"}
Terminal == stage \in {"Done", "Failed"}

\* C6: the stages start in the fixed order, each at most once; no stage
\* starts while transcription is still in progress; once the run is Done or
\* Failed no stage starts, no service is called and the state stays.
C6_StageOrder ==
    /\ [](IsPrefix(trace, Stages))
    /\ [][InTranscription => (trace' = trace)]_vars
    /\ [][Terminal => (trace' = trace /\ calls' = calls /\ stage' = stage)]_vars

C6_Witness == stage = "Done" /\ trace = Stages /\ mainpc = "end"

\* C7: chunk i (from 0) starts at i*30000 and ends at min((i+1)*30000, T);
\* the chunks are non-empty, at most 30000 long, contiguous, all but the
\* last exactly 30000 long, and cover [0, T).
C7_SegmentsPartition ==
    pvpc \in {"export", "recognize", "remove"} =>
        LET n == Len(chunks) IN
        /\ \A i \in 1..n :
            /\ chunks[i].start = (i - 1) * 30000
            /\ chunks[i].end = Min(i * 30000, duration)
            /\ chunks[i].start < chunks[i].end
            /\ chunks[i].end - chunks[i].start <= 30000
        /\ \A i \in 1..(n - 1) :
            /\ chunks[i].end = chunks[i + 1].start
            /\ chunks[i].end - chunks[i].start = 30000
        /\ (n = 0 <=> duration = 0)
        /\ (n > 0 => chunks[1].start = 0 /\ chunks[n].end = duration)

C7_Witness ==
    /\ pvpc = "export"
    /\ duration = 45000
    /\ Len(chunks) = 2
    /\ chunks[2] = [start |-> 30000, end |-> 45000]

\* C8: the text recognize_speech returns splits at single spaces into
\* exactly the recognized fragments in chunk order (so no piece is empty:
\* no leading, trailing or doubled space), and is empty when no chunk was
\* recognized.
C8_JoinedInOrder ==
    (pvpc = "check_transcript" /\ ~urdu_text.isNone) =>
        LET want == RecognizedTexts(outcomes) IN
        /\ Len(outcomes) = Len(chunks)
        /\ IF want = <<>> THEN urdu_text.text = <<>>
           ELSE SplitOnSpace(urdu_text.text, <<>>) = want

C8_Witness ==
    /\ pvpc = "check_transcript"
    /\ Len(outcomes) = 3
    /\ outcomes[1].out = "recognized" /\ outcomes[1].text = <<"b", "c">>
    /\ outcomes[2].out \in {"unknown", "request_error"}
    /\ outcomes[3].out = "recognized" /\ outcomes[3].text = <<"a">>
    /\ urdu_text = SomeText(<<"b", "c", " ", "a">>)

\* C9: when every chunk was processed and each was unrecognized or a
\* service error, process_video returns None, the translation and synthesis
\* services were never called, and no chunk file exists.
C9_AllSegmentsFail ==
    (/\ Returned
     /\ Started("Transcribing")
     /\ Len(outcomes) = Len(chunks)
     /\ \A i \in DOMAIN outcomes : outcomes[i].out \in {"unknown", "request_error"})
    => /\ result = NoPath
       /\ stage = "Failed"
       /\ calls.translate = 0
       /\ calls.tts = 0
       /\ \A i \in 1..Len(chunks) : ChunkFile(i) \notin files

C9_Witness ==
    /\ Returned
    /\ Len(chunks) = 2
    /\ Len(outcomes) = 2
    /\ outcomes[1].out = "unknown"
    /\ outcomes[2].out = "request_error"
    /\ result = NoPath
    /\ created = {InputFile, AudioFile, ChunkFile(1), ChunkFile(2)}

\* C10: when the translation service returned an error, process_video
\* returns None, the extracted audio file is deleted and synthesis was not
\* called.
C10_TranslationErrorAborts ==
    (Returned /\ translateOutcome = "error") =>
        /\ result = NoPath
        /\ AudioFile \notin files
        /\ calls.tts = 0

\* The transcription loop has been left.
LeftLoop ==
    /\ Started("Transcribing")
    /\ pvpc \in {"check_transcript", "translate", "synthesize", "remux",
                 "cleanup", "returned"}

\* Every chunk handled so far ended in one of the three per-segment outcomes.
OnlySegmentOutcomes ==
    \A i \in DOMAIN outcomes :
        outcomes[i].out \in {"recognized", "unknown", "request_error"}
SomeRecognized == \E i \in DOMAIN outcomes : outcomes[i].out = "recognized"

\* st.error was called only for speech-service request errors.
NoStageError == \A i \in DOMAIN errors : errors[i] = "speech_service"

\* C11: an unrecognized chunk or a speech-service request error does not end
\* the loop: when the loop is left after such outcomes only, every chunk
\* was processed; if at least one chunk was recognized the translation
\* stage starts, and with no error in a later stage the run is Done.
C11_SoftFailureDoesNotAbort ==
    /\ (LeftLoop /\ OnlySegmentOutcomes) => Len(outcomes) = Len(chunks)
    /\ (Returned /\ OnlySegmentOutcomes /\ SomeRecognized) =>
            Started("Translating")
    /\ (Returned /\ OnlySegmentOutcomes /\ SomeRecognized /\ NoStageError) =>
            (stage = "Done" /\ result = OutputFile)

C11_Witness ==
    /\ Returned
    /\ duration = 60000
    /\ Len(outcomes) = 2
    /\ outcomes[1].out = "recognized"
    /\ outcomes[2].out = "unknown"
    /\ urdu_text = SomeText(outcomes[1].text)
    /\ stage = "Done"

Reported(v) == \E i \in DOMAIN progressLog : progressLog[i] = v

C13_OneErrorPerAbort ==
    (Returned /\ result = NoPath) => Len(errors) = 1

\* The 26 capital letters and their lower-case forms.
Capitals == <<"A", "B", "C", "D", "E", "F", "G", "H", "I", "J", "K", "L", "M",
              "N", "O", "P", "Q", "R", "S", "T", "U", "V", "W", "X", "Y", "Z">>
Smalls == <<"a", "b", "c", "d", "e", "f", "g", "h", "i", "j", "k", "l", "m",
            "n", "o", "p", "q", "r", "s", "t", "u", "v", "w", "x", "y", "z">>
Lower(c) ==
    IF \E k \in DOMAIN Capitals : Capitals[k] = c
    THEN Smalls[CHOOSE k \in DOMAIN Capitals : Capitals[k] = c]
    ELSE c
LowerAll(t) == [i \in 1..Len(t) |-> Lower(t[i])]

\* The entries of a list written with ", " between them.
RECURSIVE SplitOnCommaSpace(_, _)
SplitOnCommaSpace(text, piece) ==
    IF text = <<>> THEN <<piece>>
    ELSE IF Len(text) >= 2 /\ text[1] = "," /\ text[2] = " "
    THEN <<piece>> \o SplitOnCommaSpace(Tail(Tail(text)), <<>>)
    ELSE SplitOnCommaSpace(Tail(text), Append(piece, Head(text)))

\* C14: the preserve-list in every translation request, whatever the text
\* to translate, is the configured list in its order, and no two of its
\* entries are equal ignoring case.
C14_PreserveListUnique ==
    Started("Translating") =>
        LET sent == SplitOnCommaSpace(request.preserve_list, <<>>) IN
        /\ Len(sent) = 7
        /\ sent[1] = <<"n", "a", "m", "a", "z">>
        /\ sent[7] = <<"m", "a", "s", "j", "i", "d">>
        /\ \A i \in DOMAIN sent : \A j \in DOMAIN sent :
                (i < j) => (sent[i] # sent[j] /\ LowerAll(sent[i]) # LowerAll(sent[j]))
        /\ \A i \in DOMAIN sent : sent[i] = preserve_terms[i]

C14_Witness ==
    /\ Started("Translating")
    /\ request.text = <<"b", "c", " ", "a">>
    /\ Len(request.preserve_list) = 47

ChunkFiles == {f \in files : f[1] = "chunk"}

\* C15: at most one chunk file exists at any moment, none exists when the
\* next chunk is about to be exported, and none exists once
\* recognize_speech has returned, whatever it returned.
C15_ChunkFilesShortLived ==
    /\ Cardinality(ChunkFiles) <= 1
    /\ (pvpc = "export" => ChunkFiles = {})
    /\ (LeftLoop => ChunkFiles = {})

\* C16: when synthesis failed, process_video returns None and no
\* synthesized audio file, partial or not, remains on storage.
C16_NoPartialSynthFile ==
    (Returned /\ Started("Synthesizing") /\ english_audio_path = NoPath) =>
        (result = NoPath /\ SynthFile \notin files)

\* C17: while process_video runs and when it returns, on success or
\* failure, the input file exists and was never removed; it is removed,
\* once, by main: when the guard rejected it, and after process_video
\* returned whatever the result.
C17_InputOwnedByMain ==
    /\ (mainpc = "processing" =>
            InputFile \in files /\ Count(removed, InputFile) = 0)
    /\ (mainpc = "end" /\ verdict = "reject" =>
            InputFile \notin files /\ Count(removed, InputFile) = 1)
    /\ (mainpc = "end" /\ Returned =>
            InputFile \notin files /\ Count(removed, InputFile) = 1)
    /\ (Count(removed, InputFile) > 0 => mainpc = "end")

C17_Witness ==
    /\ mainpc = "end"
    /\ Returned
    /\ result = NoPath
    /\ Started("Remuxing")
    /\ InputFile \notin files
    /\ Count(removed, InputFile) = 1

\* Each of the five stages ended without error.
AllStagesSucceeded ==
    /\ trace = Stages
    /\ audio_path = AudioFile
    /\ ~FalsyText(urdu_text)
    /\ translateOutcome = "ok"
    /\ english_audio_path = SynthFile
    /\ OutputFile \in created
    /\ \A i \in DOMAIN errors : errors[i] # "process_video"

\* C18: a call of process_video that has not returned can always take a
\* step; it returns None or the output path, and the output path exactly
\* when all five stages succeeded and progress 100 was reported.
C18_ReturnsPathIffAllStagesOk ==
    /\ (mainpc = "processing" /\ ~Returned => ENABLED Next)
    /\ (Returned => result \in {NoPath, OutputFile})
    /\ (Returned => (result # NoPath <=> (AllStagesSucceeded /\ Reported(100))))

C18_Witness ==
    /\ Returned
    /\ mainpc = "processing"
    /\ result = OutputFile
    /\ OutputFile \in files

HardOutcome == \E i \in DOMAIN outcomes : outcomes[i].out = "hard"

\* C19: the loop goes on only after a recognized, unrecognized or
\* request-error chunk; after any other error on a chunk no further chunk
\* is processed, recognize_speech returns None whatever was recognized
\* before, the translation service is not called and the run fails.
C19_OtherErrorsAbort ==
    /\ (pvpc = "remove" =>
            outcomes[Len(outcomes)].out \in {"recognized", "unknown", "request_error"})
    /\ (HardOutcome =>
            /\ pvpc \in {"check_transcript", "returned"}
            /\ outcomes[Len(outcomes)].out = "hard"
            /\ urdu_text = NoneText
            /\ calls.translate = 0)
    /\ (HardOutcome /\ Returned => result = NoPath /\ stage = "Failed")

C19_Witness ==
    /\ Returned
    /\ Len(chunks) = 3
    /\ Len(outcomes) = 2
    /\ outcomes[1].out = "recognized"
    /\ outcomes[2].out = "hard"
    /\ transcribed_text # <<>>
    /\ urdu_text = NoneText
    /\ calls.translate = 0

====
